---- MODULE Spec2Model ----
(***************************************************************************)
(* Model of scripts/doc-discrepancy-check.js: the cross-document           *)
(* discrepancy check.  A text is a sequence of one-character strings, an   *)
(* offset is 0-based as in JavaScript (the character at offset i of s is   *)
(* s[i+1]), and each regular expression of the script is an operator that  *)
(* computes the match the JavaScript engine finds (leftmost, greedy,       *)
(* alternatives in order, backtracking where a later \b can fail).         *)
(***************************************************************************)
EXTENDS Integers, Sequences, FiniteSets, TLC

(***************************************************************************)
(* Character classes of the regular expressions.                           *)
(***************************************************************************)
Digits == {"0", "1", "2", "3", "4", "5", "6", "7", "8", "9"}

UpperCase == <<"A", "B", "C", "D", "E", "F", "G", "H", "I", "J", "K", "L", "M",
               "N", "O", "P", "Q", "R", "S", "T", "U", "V", "W", "X", "Y", "Z">>

LowerCase == <<"a", "b", "c", "d", "e", "f", "g", "h", "i", "j", "k", "l", "m",
               "n", "o", "p", "q", "r", "s", "t", "u", "v", "w", "x", "y", "z">>

UpperSet == {UpperCase[k] : k \in 1..26}

LowerSet == {LowerCase[k] : k \in 1..26}

\* \w : [A-Za-z0-9_]
WordChars == UpperSet \cup LowerSet \cup Digits \cup {"_"}

\* \s (the white space the documents of the model use)
Space == {" ", "\t", "\n", "\r"}

\* the character U+0000 of a binary document
NUL == "NUL"

\* String.prototype.toLowerCase, one character
Lower(c) ==
    IF c \in UpperSet THEN LowerCase[CHOOSE k \in 1..26 : UpperCase[k] = c] ELSE c

ToLowerCase(s) == [k \in 1..Len(s) |-> Lower(s[k])]

\* \b at offset i of s: exactly one of the characters before and after is \w
Boundary(s, i) ==
    LET before == i >= 1 /\ i <= Len(s) /\ s[i] \in WordChars
        after  == i >= 0 /\ i < Len(s) /\ s[i + 1] \in WordChars
    IN  before # after

\* s has w at offset i
StartsWith(s, i, w) ==
    /\ i + Len(w) <= Len(s)
    /\ \A j \in 1..Len(w) : s[i + j] = w[j]

\* s has w at offset i, ignoring case (w is lower case)
StartsWithI(s, i, w) ==
    /\ i + Len(w) <= Len(s)
    /\ \A j \in 1..Len(w) : Lower(s[i + j]) = w[j]

\* the offset after the longest run of characters of class C that starts at i
RunEnd(s, i, C) ==
    CHOOSE j \in i..Len(s) :
        /\ \A k \in (i + 1)..j : s[k] \in C
        /\ (j = Len(s) \/ s[j + 1] \notin C)

\* s.slice(from, to)
Slice(s, from, to) == SubSeq(s, from + 1, to)

\* the smallest member of a non-empty set of integers
Least(S) == CHOOSE x \in S : \A y \in S : x <= y

\* the largest member of a non-empty set of integers
Greatest(S) == CHOOSE x \in S : \A y \in S : x >= y

\* s.replace(/\s+/g, " ")
RECURSIVE CollapseFrom(_, _)
CollapseFrom(s, i) ==
    LET at == {j \in i..(Len(s) - 1) : s[j + 1] \in Space}
    IN  IF at = {} THEN Slice(s, i, Len(s))
        ELSE Slice(s, i, Least(at)) \o <<" ">>
                \o CollapseFrom(s, RunEnd(s, Least(at), Space))

CollapseSpace(s) == CollapseFrom(s, 0)

\* s.trim()
Trim(s) ==
    LET black == {k \in 1..Len(s) : s[k] \notin Space}
    IN  IF black = {} THEN <<>> ELSE SubSeq(s, Least(black), Greatest(black))

(***************************************************************************)
(* The magnitude alternatives  million|M|m|thousand|k|K , in order.        *)
(***************************************************************************)
MagAlts ==
    << <<"m", "i", "l", "l", "i", "o", "n">>, <<"M">>, <<"m">>,
       <<"t", "h", "o", "u", "s", "a", "n", "d">>, <<"k">>, <<"K">> >>

\* the offset after the first alternative that matches at q, or -1
MagEnd(s, q) ==
    LET hit == {a \in 1..Len(MagAlts) : StartsWith(s, q, MagAlts[a])}
    IN  IF hit = {} THEN -1 ELSE q + Len(MagAlts[Least(hit)])

\* the same under the flag i
MagEndI(s, q) ==
    LET hit == {a \in 1..Len(MagAlts) : StartsWithI(s, q, ToLowerCase(MagAlts[a]))}
    IN  IF hit = {} THEN -1 ELSE q + Len(MagAlts[Least(hit)])

\* the same followed by \b
MagEndB(s, q) ==
    LET hit == {a \in 1..Len(MagAlts) :
                   /\ StartsWith(s, q, MagAlts[a])
                   /\ Boundary(s, q + Len(MagAlts[a]))}
    IN  IF hit = {} THEN -1 ELSE q + Len(MagAlts[Least(hit)])

(***************************************************************************)
(* Numbers.  A value is NaN or the decimal m * 10^x, with m not a multiple *)
(* of ten (and x = 0 when m = 0), so that equal numbers are equal values.  *)
(* The arithmetic is exact: the rounding of IEEE doubles is not modelled.  *)
(***************************************************************************)
NaN == [nan |-> TRUE, m |-> 0, x |-> 0]

RECURSIVE Pow10(_)
Pow10(n) == IF n = 0 THEN 1 ELSE 10 * Pow10(n - 1)

RECURSIVE Canon(_, _)
Canon(m, x) ==
    IF m = 0 THEN [nan |-> FALSE, m |-> 0, x |-> 0]
    ELSE IF m % 10 = 0 THEN Canon(m \div 10, x + 1)
    ELSE [nan |-> FALSE, m |-> m, x |-> x]

\* the integer n
Num(n) == Canon(n, 0)

DigitVal(c) == CHOOSE d \in 0..9 : ToString(d) = c

RECURSIVE DigitsToNat(_)
DigitsToNat(ds) ==
    IF ds = <<>> THEN 0
    ELSE 10 * DigitsToNat(SubSeq(ds, 1, Len(ds) - 1)) + DigitVal(ds[Len(ds)])

\* v * 10^k (v *= 1e6, v *= 1e3); NaN stays NaN
Times10(v, k) == IF v.nan THEN NaN ELSE Canon(v.m, v.x + k)

\* v < n for an integer n in 1..100; false of NaN
LessThan(v, n) ==
    /\ ~v.nan
    /\ IF v.x <= 0 THEN v.m \div Pow10(-v.x) < n
       ELSE v.m < n /\ v.x <= 2 /\ v.m * Pow10(v.x) < n

\* parseFloat of a string of digits and dots: the longest prefix
\* digits [. digits], NaN when that prefix holds no digit
ParseFloat(t) ==
    LET a    == RunEnd(t, 0, Digits)
        b    == IF a < Len(t) /\ t[a + 1] = "." THEN RunEnd(t, a + 1, Digits) ELSE a
        int  == Slice(t, 0, a)
        frac == IF b > a THEN Slice(t, a + 1, b) ELSE <<>>
    IN  IF int = <<>> /\ frac = <<>> THEN NaN
        ELSE Canon(DigitsToNat(int \o frac), -Len(frac))

\* s.replace(/,/g, "")
StripCommas(s) == SelectSeq(s, LAMBDA c : c # ",")

(***************************************************************************)
(* parseDollar                                                             *)
(***************************************************************************)
\* s.match(/\$([\d,.]+)\s*(million|M|m|thousand|k|K)?/i): the offset of the
\* first "$" that a character of [\d,.] follows, or -1
ParseDollarStart(s) ==
    LET at == {i \in 0..(Len(s) - 2) :
                  s[i + 1] = "$" /\ s[i + 2] \in Digits \cup {",", "."}}
    IN  IF at = {} THEN -1 ELSE Least(at)

\* parseDollar(s), with null modelled as the string "null"
parseDollar(s) ==
    LET i  == ParseDollarStart(s)
        p  == RunEnd(s, i + 1, Digits \cup {",", "."})
        q  == RunEnd(s, p, Space)
        hit == {a \in 1..Len(MagAlts) : StartsWithI(s, q, ToLowerCase(MagAlts[a]))}
        u  == IF hit = {} THEN <<>> ELSE ToLowerCase(MagAlts[Least(hit)])
        v  == ParseFloat(StripCommas(Slice(s, i + 1, p)))
    IN  IF i = -1 THEN "null"
        ELSE IF u = <<"m", "i", "l", "l", "i", "o", "n">> \/ u = <<"m">>
             THEN Times10(v, 6)
        ELSE IF u = <<"t", "h", "o", "u", "s", "a", "n", "d">> \/ u = <<"k">>
             THEN Times10(v, 3)
        ELSE v

(***************************************************************************)
(* makeContextKey                                                          *)
(***************************************************************************)
\* the default of the parameter len: characters of the window before pos
WindowBefore == 55

\* characters of the window from pos on
WindowAfter == 25

\* the key keeps this many trailing characters
KeyLength == 70

\* /\$[\d,.]+(?:\s*(?:million|M|m|thousand|k|K))?/gi at offset i: the offset
\* after the match, or -1
DollarMaskEnd(s, i) ==
    IF ~(i < Len(s) /\ s[i + 1] = "$") THEN -1
    ELSE LET p == RunEnd(s, i + 1, Digits \cup {",", "."})
             q == RunEnd(s, p, Space)
         IN  IF p = i + 1 THEN -1
             ELSE IF MagEndI(s, q) # -1 THEN MagEndI(s, q)
             ELSE p

\* window.replace(<the expression above>, "$#")
RECURSIVE MaskDollarsFrom(_, _)
MaskDollarsFrom(s, i) ==
    LET at == {j \in i..(Len(s) - 1) : DollarMaskEnd(s, j) # -1}
    IN  IF at = {} THEN Slice(s, i, Len(s))
        ELSE Slice(s, i, Least(at)) \o <<"$", "#">>
                \o MaskDollarsFrom(s, DollarMaskEnd(s, Least(at)))

MaskDollars(s) == MaskDollarsFrom(s, 0)

\* /\b\d[\d,.]*(?:\s*(?:million|M|m|thousand|k|K))?\b/g at offset i, with the
\* run [\d,.]* ending at p: the magnitude group when it matches before a \b,
\* else no group when p is at a \b, else -1
NumberMaskTry(s, p) ==
    LET q == RunEnd(s, p, Space)
    IN  IF MagEndB(s, q) # -1 THEN MagEndB(s, q)
        ELSE IF Boundary(s, p) THEN p
        ELSE -1

\* NumberMaskEnd as it would be if the run [\d,.]* gave nothing back
NumberMaskEndGreedy(s, i) ==
    IF ~(i < Len(s) /\ s[i + 1] \in Digits /\ Boundary(s, i)) THEN -1
    ELSE NumberMaskTry(s, RunEnd(s, i + 1, Digits \cup {",", "."}))

\* the offset after the match at offset i, or -1: the run [\d,.]* is greedy
\* and gives characters back until the rest matches
NumberMaskEnd(s, i) ==
    IF ~(i < Len(s) /\ s[i + 1] \in Digits /\ Boundary(s, i)) THEN -1
    ELSE LET r  == RunEnd(s, i + 1, Digits \cup {",", "."})
             ok == {p \in (i + 1)..r : NumberMaskTry(s, p) # -1}
         IN  IF ok = {} THEN -1 ELSE NumberMaskTry(s, Greatest(ok))

\* window.replace(<the expression above>, "#")
RECURSIVE MaskNumbersFrom(_, _)
MaskNumbersFrom(s, i) ==
    LET at == {j \in i..(Len(s) - 1) : NumberMaskEnd(s, j) # -1}
    IN  IF at = {} THEN Slice(s, i, Len(s))
        ELSE Slice(s, i, Least(at)) \o <<"#">>
                \o MaskNumbersFrom(s, NumberMaskEnd(s, Least(at)))

MaskNumbers(s) == MaskNumbersFrom(s, 0)

\* s.replace(/[^a-z0-9#\s]/g, " ")
StripSymbols(s) ==
    [k \in 1..Len(s) |->
        IF s[k] \in LowerSet \cup Digits \cup {"#"} \cup Space THEN s[k] ELSE " "]

\* s.slice(-n)
LastChars(s, n) == IF Len(s) <= n THEN s ELSE SubSeq(s, Len(s) - n + 1, Len(s))

Max(a, b) == IF a >= b THEN a ELSE b

Min(a, b) == IF a <= b THEN a ELSE b

\* text.slice(start, end).replace(/\s+/g, " ").trim()
Window(text, pos) ==
    LET start == Max(0, pos - WindowBefore)
        end   == Min(Len(text), pos + WindowAfter)
    IN  Trim(CollapseSpace(Slice(text, start, end)))

\* the window after the two replacements by "$#" and by "#"
Masked(text, pos) == MaskNumbers(MaskDollars(Window(text, pos)))

\* the masked window in lower case, its other characters turned to spaces
Cleaned(text, pos) == Trim(CollapseSpace(StripSymbols(ToLowerCase(Masked(text, pos)))))

makeContextKey(text, pos) == LastChars(Cleaned(text, pos), KeyLength)

(***************************************************************************)
(* extractFacts: the two expressions it scans a text with                  *)
(***************************************************************************)
\* dollarRe = /\$[\d,]+(?:\.\d+)?(?:\s*(?:million|M|m|thousand|k|K))?/g at
\* offset i: the offset after the match, or -1
DollarMatchEnd(s, i) ==
    IF ~(i < Len(s) /\ s[i + 1] = "$") THEN -1
    ELSE LET p  == RunEnd(s, i + 1, Digits \cup {","})
             p2 == IF p + 1 < Len(s) /\ s[p + 1] = "." /\ s[p + 2] \in Digits
                   THEN RunEnd(s, p + 1, Digits)
                   ELSE p
             q  == RunEnd(s, p2, Space)
         IN  IF p = i + 1 THEN -1
             ELSE IF MagEnd(s, q) # -1 THEN MagEnd(s, q)
             ELSE p2

\* the alternatives of countRe, in order: head, then for "grill\s+sites?"
\* white space and rest, then an optional s
UnitAlts ==
    << [head |-> <<"v", "e", "h", "i", "c", "l", "e">>, rest |-> <<>>, s |-> TRUE],
       [head |-> <<"s", "i", "t", "e">>, rest |-> <<>>, s |-> TRUE],
       [head |-> <<"u", "n", "i", "t">>, rest |-> <<>>, s |-> TRUE],
       [head |-> <<"a", "c", "r", "e">>, rest |-> <<>>, s |-> TRUE],
       [head |-> <<"m", "e", "t", "r", "e">>, rest |-> <<>>, s |-> TRUE],
       [head |-> <<"d", "o", "g">>, rest |-> <<>>, s |-> TRUE],
       [head |-> <<"g", "r", "i", "l", "l">>, rest |-> <<"s", "i", "t", "e">>, s |-> TRUE],
       [head |-> <<"f", "l", "e", "e", "t">>, rest |-> <<>>, s |-> FALSE],
       [head |-> <<"y", "e", "a", "r">>, rest |-> <<>>, s |-> TRUE],
       [head |-> <<"m", "o", "n", "t", "h">>, rest |-> <<>>, s |-> TRUE],
       [head |-> <<"t", "r", "e", "e", "h", "o", "u", "s", "e">>, rest |-> <<>>, s |-> TRUE],
       [head |-> <<"s", "e", "c", "t", "i", "o", "n">>, rest |-> <<>>, s |-> TRUE],
       [head |-> <<"n", "o", "d", "e">>, rest |-> <<>>, s |-> TRUE] >>

\* one alternative at offset q, followed by \b: the offset after it, or -1
UnitEnd(s, q, alt) ==
    LET p1 == q + Len(alt.head)
        w  == IF p1 <= Len(s) THEN RunEnd(s, p1, Space) ELSE p1
        p2 == IF alt.rest = <<>> THEN p1 ELSE w + Len(alt.rest)
        whole == /\ StartsWithI(s, q, alt.head)
                 /\ alt.rest # <<>> => (w > p1 /\ StartsWithI(s, w, alt.rest))
    IN  IF ~whole THEN -1
        ELSE IF alt.s /\ p2 < Len(s) /\ Lower(s[p2 + 1]) = "s" /\ Boundary(s, p2 + 1)
             THEN p2 + 1
        ELSE IF Boundary(s, p2) THEN p2
        ELSE -1

\* the most digits \d{1,4} takes
MaxCountDigits == 4

\* countRe = /\b(\d{1,4})\s*(vehicles?|...|nodes?)\b/gi at offset i: the
\* match [digits end, unit start, end], or <<>>
CountMatchAt(s, i) ==
    IF ~(i < Len(s) /\ s[i + 1] \in Digits /\ Boundary(s, i)) THEN <<>>
    ELSE LET d   == RunEnd(s, i, Digits)
             q   == RunEnd(s, d, Space)
             hit == {a \in 1..Len(UnitAlts) : UnitEnd(s, q, UnitAlts[a]) # -1}
         IN  IF d - i > MaxCountDigits \/ hit = {} THEN <<>>
             ELSE <<d, q, UnitEnd(s, q, UnitAlts[Least(hit)])>>

\* the matches of dollarRe in s from lastIndex on, as the loop
\* while ((match = dollarRe.exec(text)) !== null) meets them
RECURSIVE DollarMatches(_, _)
DollarMatches(s, lastIndex) ==
    LET at == {i \in lastIndex..(Len(s) - 1) : DollarMatchEnd(s, i) # -1}
    IN  IF at = {} THEN <<>>
        ELSE <<[index |-> Least(at), end |-> DollarMatchEnd(s, Least(at))]>>
             \o DollarMatches(s, DollarMatchEnd(s, Least(at)))

\* the matches of countRe in s from lastIndex on
RECURSIVE CountMatches(_, _)
CountMatches(s, lastIndex) ==
    LET at == {i \in lastIndex..(Len(s) - 1) : CountMatchAt(s, i) # <<>>}
        m  == CountMatchAt(s, Least(at))
    IN  IF at = {} THEN <<>>
        ELSE <<[index |-> Least(at), digits |-> m[1], unit |-> m[2], end |-> m[3]]>>
             \o CountMatches(s, m[3])

(***************************************************************************)
(* extractFacts                                                            *)
(***************************************************************************)
MAX_FILE_MB == 2

\* a dollar match needs a key of at least this many characters
MinDollarKey == 12

\* a count match needs a key of at least this many characters
MinCountKey == 5

\* a dollar value below this is dropped when its key looks like code
SmallDollar == 10

\* parseDollar's null
Null == [null |-> TRUE]

Contains(s, w) == \E i \in 0..(Len(s) - Len(w)) : StartsWith(s, i, w)

\* /replace|regex|exec|match|substr|char/.test(key)
CodeLikeDollarKey(key) ==
    \E w \in {<<"r", "e", "p", "l", "a", "c", "e">>, <<"r", "e", "g", "e", "x">>, <<"e", "x", "e", "c">>, <<"m", "a", "t", "c", "h">>, <<"s", "u", "b", "s", "t", "r">>, <<"c", "h", "a", "r">>} : Contains(key, w)

\* the test  value == null  of the dollar loop
IsNull(value) == value = Null

\* KeepDollar as it would be without  if (key.length < 12) continue
KeepDollarAnyKey(f) ==
    /\ ~IsNull(f.value)
    /\ ~(LessThan(f.value, SmallDollar) /\ CodeLikeDollarKey(f.key))

\* the conditions under which the dollar loop pushes a match
KeepDollar(f) ==
    /\ ~IsNull(f.value)
    /\ ~(Len(f.key) < MinDollarKey)
    /\ ~(LessThan(f.value, SmallDollar) /\ CodeLikeDollarKey(f.key))

\* the condition under which the count loop pushes a match
KeepCount(f) == ~(Len(f.key) < MinCountKey)

\* The facts of the dollar loop.  A fact is the script's object
\* {type, key, value, unit, raw, file}; unit is <<>> where the script sets
\* none, and index records match.index, which the script does not store.
DollarFacts(text, file) ==
    LET ms  == DollarMatches(text, 0)
        all == [k \in 1..Len(ms) |->
                  [type  |-> "dollar",
                   key   |-> makeContextKey(text, ms[k].index),
                   value |-> parseDollar(Slice(text, ms[k].index, ms[k].end)),
                   unit  |-> <<>>,
                   raw   |-> Slice(text, ms[k].index, ms[k].end),
                   file  |-> file,
                   index |-> ms[k].index]]
    IN  SelectSeq(all, KeepDollar)

CountFacts(text, file) ==
    LET ms  == CountMatches(text, 0)
        all == [k \in 1..Len(ms) |->
                  [type  |-> "count",
                   key   |-> makeContextKey(text, ms[k].index),
                   value |-> Num(DigitsToNat(Slice(text, ms[k].index, ms[k].digits))),
                   unit  |-> CollapseSpace(ToLowerCase(Slice(text, ms[k].unit, ms[k].end))),
                   raw   |-> Slice(text, ms[k].index, ms[k].end),
                   file  |-> file,
                   index |-> ms[k].index]]
    IN  SelectSeq(all, KeepCount)

\* ScanText as it would be with the count loop ahead of the dollar loop
ScanTextCountsFirst(text, file) == CountFacts(text, file) \o DollarFacts(text, file)

\* facts.push in the order of the two loops: the dollar loop runs to its end
\* before the count loop starts
ScanText(text, file) == DollarFacts(text, file) \o CountFacts(text, file)

\* extractFacts as it would be without the test of buf.length
extractFactsAnySize(file, doc) ==
    IF ~doc.readable THEN <<>>
    ELSE IF doc.text = <<>> \/ \E k \in 1..Len(doc.text) : doc.text[k] = NUL THEN <<>>
    ELSE ScanText(doc.text, file)

\* A document is [readable, bytes, text]: whether readFile succeeds, the
\* length of the buffer it returns, and the buffer as a string.
extractFacts(file, doc) ==
    IF ~doc.readable THEN <<>>
    ELSE IF doc.bytes > MAX_FILE_MB * 1024 * 1024 THEN <<>>
    ELSE IF doc.text = <<>> \/ \E k \in 1..Len(doc.text) : doc.text[k] = NUL THEN <<>>
    ELSE ScanText(doc.text, file)

(***************************************************************************)
(* keySimilarity and groupSimilarKeys                                      *)
(***************************************************************************)
\* key.split(/\s+/)
RECURSIVE SplitFrom(_, _)
SplitFrom(s, i) ==
    LET sp == {j \in i..(Len(s) - 1) : s[j + 1] \in Space}
    IN  IF sp = {} THEN <<Slice(s, i, Len(s))>>
        ELSE <<Slice(s, i, Least(sp))>> \o SplitFrom(s, RunEnd(s, Least(sp), Space))

Split(s) == SplitFrom(s, 0)

\* new Set(key.split(/\s+/).filter((w) => w.length > 1 && w !== "#"))
KeyWords(key) ==
    LET ws == Split(key)
    IN  {ws[k] : k \in {j \in 1..Len(ws) : Len(ws[j]) > 1 /\ ws[j] # <<"#">>}}

\* keySimilarity(a, b) as the fraction <<inter, union>>; <<0, 1>> is the 0
\* returned when the union is empty
keySimilarity(a, b) ==
    LET wa == KeyWords(a)
        wb == KeyWords(b)
    IN  IF Cardinality(wa \cup wb) = 0 THEN <<0, 1>>
        ELSE <<Cardinality(wa \cap wb), Cardinality(wa \cup wb)>>

\* keySimilarity(g, o) >= 0.5
Linked(g, o) ==
    LET sim == keySimilarity(g, o)
    IN  2 * sim[1] >= sim[2]

\* Absorb as it would be without  used.add(o)
RECURSIVE AbsorbNoMark(_, _, _, _)
AbsorbNoMark(keys, j, group, used) ==
    IF j > Len(keys) THEN [group |-> group, used |-> used]
    ELSE IF keys[j] \in used THEN AbsorbNoMark(keys, j + 1, group, used)
    ELSE IF \E g \in 1..Len(group) : Linked(group[g], keys[j])
         THEN AbsorbNoMark(keys, j + 1, Append(group, keys[j]), used)
    ELSE AbsorbNoMark(keys, j + 1, group, used)

\* Absorb as it would be if a key were compared with the first key of the
\* group only
RECURSIVE AbsorbBySeed(_, _, _, _)
AbsorbBySeed(keys, j, group, used) ==
    IF j > Len(keys) THEN [group |-> group, used |-> used]
    ELSE IF keys[j] \in used THEN AbsorbBySeed(keys, j + 1, group, used)
    ELSE IF Linked(group[1], keys[j])
         THEN AbsorbBySeed(keys, j + 1, Append(group, keys[j]), used \cup {keys[j]})
    ELSE AbsorbBySeed(keys, j + 1, group, used)

\* the inner loop  for (const o of keys)  from keys[j] on: the group and
\* the set used when it ends
RECURSIVE Absorb(_, _, _, _)
Absorb(keys, j, group, used) ==
    IF j > Len(keys) THEN [group |-> group, used |-> used]
    ELSE IF keys[j] \in used THEN Absorb(keys, j + 1, group, used)
    ELSE IF \E g \in 1..Len(group) : Linked(group[g], keys[j])
         THEN Absorb(keys, j + 1, Append(group, keys[j]), used \cup {keys[j]})
    ELSE Absorb(keys, j + 1, group, used)

\* the outer loop  for (const k of keys)  from keys[i] on
RECURSIVE GroupFrom(_, _, _)
GroupFrom(keys, i, used) ==
    IF i > Len(keys) THEN <<>>
    ELSE IF keys[i] \in used THEN GroupFrom(keys, i + 1, used)
    ELSE LET r == Absorb(keys, 1, <<keys[i]>>, used \cup {keys[i]})
         IN  <<r.group>> \o GroupFrom(keys, i + 1, r.used)

\* groupSimilarKeys(factsByKey), of the keys of the map in insertion order
groupSimilarKeys(keys) == GroupFrom(keys, 1, {})

(***************************************************************************)
(* main: grouping by key, direct conflicts, cross-context conflicts        *)
(***************************************************************************)
\* the distinct members of a sequence in the order of their first
\* occurrence: the keys of a Map, the members of a Set, as they are iterated
RECURSIVE Distinct(_)
Distinct(q) ==
    IF q = <<>> THEN <<>>
    ELSE LET init == Distinct(SubSeq(q, 1, Len(q) - 1))
             last == q[Len(q)]
         IN  IF \E k \in 1..Len(init) : init[k] = last THEN init ELSE Append(init, last)

Map(q, F(_)) == [k \in 1..Len(q) |-> F(q[k])]

RECURSIVE Flatten(_)
Flatten(qq) == IF qq = <<>> THEN <<>> ELSE Head(qq) \o Flatten(Tail(qq))

KeyOf(f) == f.key

ValueOf(f) == f.value

FileOf(f) == f.file

RawOf(f) == f.raw

\* [...byKey.keys()]
byKeyKeys(facts) == Distinct(Map(facts, KeyOf))

\* byKey.get(k) || []
byKeyGet(facts, k) == SelectSeq(facts, LAMBDA f : f.key = k)

\* byValue of a list of facts: per distinct value, in insertion order, the
\* facts that carry it
byValueOf(list) ==
    LET vals == Distinct(Map(list, ValueOf))
    IN  [k \in 1..Len(vals) |->
            [value |-> vals[k],
             facts |-> SelectSeq(list, LAMBDA f : f.value = vals[k])]]

\* OneValue as it would be if it counted the facts, not their values
OneValueByCount(list) == Len(list) <= 1

\* uniq.length <= 1 of a list of facts
OneValue(list) == Len(Distinct(Map(list, ValueOf))) <= 1

\* the loop over byKey.entries() that fills conflicts
directConflicts(facts) ==
    LET keys == byKeyKeys(facts)
        hit  == SelectSeq(keys, LAMBDA k : ~OneValue(byKeyGet(facts, k)))
    IN  [k \in 1..Len(hit) |->
            [key     |-> hit[k],
             byValue |-> byValueOf(byKeyGet(facts, hit[k])),
             list    |-> byKeyGet(facts, hit[k])]]

\* a cross-context group of values all below this, with a key that looks
\* like code, is dropped
SmallValue == 20

\* /replace|regex|exec|char|substr/.test(k)
CodeLikeGroupKey(k) ==
    \E w \in {<<"r", "e", "p", "l", "a", "c", "e">>, <<"r", "e", "g", "e", "x">>, <<"e", "x", "e", "c">>, <<"c", "h", "a", "r">>, <<"s", "u", "b", "s", "t", "r">>} : Contains(k, w)

\* group.flatMap((k) => byKey.get(k) || [])
allInGroup(facts, group) ==
    Flatten([k \in 1..Len(group) |-> byKeyGet(facts, group[k])])

\* SkipGroup as it would be if it also dropped the groups of two keys
SkipGroupOfTwo(facts, group) ==
    LET all == allInGroup(facts, group)
    IN  \/ Len(group) <= 2
        \/ OneValue(all)
        \/ /\ \A k \in 1..Len(all) : LessThan(all[k].value, SmallValue)
           /\ \E k \in 1..Len(group) : CodeLikeGroupKey(group[k])

\* the three  continue  of the loop over similarGroups
SkipGroup(facts, group) ==
    LET all == allInGroup(facts, group)
    IN  \/ Len(group) <= 1
        \/ OneValue(all)
        \/ /\ \A k \in 1..Len(all) : LessThan(all[k].value, SmallValue)
           /\ \E k \in 1..Len(group) : CodeLikeGroupKey(group[k])

\* the loop over similarGroups that fills crossGroupConflicts
crossConflicts(facts, groups) ==
    LET hit == SelectSeq(groups, LAMBDA g : ~SkipGroup(facts, g))
    IN  [k \in 1..Len(hit) |->
            [keys    |-> hit[k],
             byValue |-> byValueOf(allInGroup(facts, hit[k])),
             facts   |-> allInGroup(facts, hit[k])]]

(***************************************************************************)
(* main: the report                                                        *)
(***************************************************************************)
\* characters of a key shown in section 1
DirectKeyShown == 80

\* characters of a key shown in section 2
CrossKeyShown == 50

\* keys shown per record of section 2
CrossKeysShown == 3

\* k.slice(0, n) + (k.length > n ? "..." : "")
Shorten(k, n) ==
    IF Len(k) > n THEN SubSeq(k, 1, n) \o <<".", ".", ".">> ELSE k

\* the lines of one value: the value and whether it is printed as dollars
\* (facts[0].type === "dollar"), the files and the raw forms, each once
ValueLines(bv) ==
    [val    |-> bv.value,
     dollar |-> bv.facts[1].type = "dollar",
     files  |-> Distinct(Map(bv.facts, FileOf)),
     raw    |-> Distinct(Map(bv.facts, RawOf))]

\* the record of section 1 for one direct conflict
DirectLines(c) ==
    [context |-> Shorten(c.key, DirectKeyShown),
     values  |-> Map(c.byValue, ValueLines)]

\* conflicts.some((c) => keys.includes(c.key))
alreadyReported(conflicts, keys) ==
    \E c \in 1..Len(conflicts) : \E k \in 1..Len(keys) : keys[k] = conflicts[c].key

\* the record of section 2 for one cross-context conflict; keys holds all
\* the keys of the group, contexts the ones the line shows
CrossLines(x) ==
    [keys     |-> x.keys,
     contexts |-> [k \in 1..Min(Len(x.keys), CrossKeysShown) |->
                      Shorten(x.keys[k], CrossKeyShown)],
     values   |-> [k \in 1..Len(x.byValue) |->
                      [val    |-> x.byValue[k].value,
                       dollar |-> x.byValue[k].facts[1].type = "dollar",
                       files  |-> Distinct(Map(x.byValue[k].facts, FileOf))]]]

\* lines.join("\n"): the records of the two sections and the summary
reportBody(facts, conflicts, cross) ==
    [direct  |-> Map(conflicts, DirectLines),
     cross   |-> Map(SelectSeq(cross, LAMBDA x : ~alreadyReported(conflicts, x.keys)),
                     CrossLines),
     summary |-> [totalFacts |-> Len(facts),
                  uniqueKeys |-> Len(byKeyKeys(facts)),
                  direct     |-> Len(conflicts),
                  similar    |-> Len(cross)]]

(***************************************************************************)
(* The documents of the model                                              *)
(***************************************************************************)
\* the files of WEBROOT that walk returns: at most this many
MaxDocs == 3

\* a text of the wide document set: a lead and at most this many pieces
MaxPieces == 4

\* a readable text document of Len(text) bytes
TextDoc(text) == [readable |-> TRUE, bytes |-> Len(text), text |-> text]

Contexts ==
    { <<"t", "h", "e", " ", "f", "l", "e", "e", "t", " ", "h", "a", "s", " ">>,
      <<"o", "u", "r", " ", "f", "l", "e", "e", "t", " ", "h", "a", "s", " ">>,
      <<"o", "u", "r", " ", "e", "x", "e", "c", " ", "h", "a", "s", " ">> }

Amounts ==
    { <<"1", "2", " ", "v", "e", "h", "i", "c", "l", "e", "s">>,
      <<"1", "5", " ", "v", "e", "h", "i", "c", "l", "e", "s">> }

OtherTexts ==
    { <<"t", "h", "e", " ", "f", "l", "e", "e", "t", " ", "h", "a", "s", " ", "$", ",">>,
      <<"o", "u", "r", " ", "f", "l", "e", "e", "t", " ", "h", "a", "s", " ", "1", "2", " ", "d", "o", "g", "s", ",", " ", "1", "5", " ", "d", "o", "g", "s", ",", " ", "$", "5", " ", "m", "o", "r", "e">>,
      <<"o", "u", "r", " ", "e", "x", "e", "c", " ", "h", "a", "s", " ", "$", "5", " ", "m", "i", "l", "l", "i", "o", "n">> }

\* a file readFile fails on, a file above the size cap (its text is what a
\* scan would find in it), and a binary file
UnreadableDoc == [readable |-> FALSE, bytes |-> 0, text |-> <<>>]

OversizeDoc ==
    [readable |-> TRUE, bytes |-> MAX_FILE_MB * 1024 * 1024 + 1,
     text |-> <<"t", "h", "e", " ", "f", "l", "e", "e", "t", " ", "h", "a", "s", " ", "9", "9", " ", "v", "e", "h", "i", "c", "l", "e", "s">>]

BinaryDoc ==
    [readable |-> TRUE, bytes |-> 27,
     text |-> <<"t", "h", "e", " ", "f", "l", "e", "e", "t", " ", "h", "a", "s", " ", NUL, " ", "9", "9", " ", "v", "e", "h", "i", "c", "l", "e", "s">>]

SkippedDocs == {UnreadableDoc, OversizeDoc, BinaryDoc}

\* the documents a corpus is drawn from
Docs ==
    {TextDoc(c \o a) : c \in Contexts, a \in Amounts}
        \cup {TextDoc(t) : t \in OtherTexts} \cup SkippedDocs

\* what stands before and after the pieces of a text of the wide set
Frames ==
    { [lead  |-> <<>>,
       trail |-> <<>>],
      [lead  |-> <<"h", "2", "o", " ", "m", "a", "t", "c", "h", " ">>,
       trail |-> <<>>],
      [lead  |-> <<"t", "h", "e", " ", "a", "n", "n", "u", "a", "l", " ", "r", "e", "p", "o", "r", "t", " ", "s", "a", "y", "s", " ", "t", "h", "a", "t", " ", "t", "h", "e", " ", "v", "_", "2", " ", "l", "i", "n", "e", " ", "o", "f", " ", "t", "h", "e", " ", "t", "o", "w", "n", " ", "h", "a", "d", " ", "a", " ", "b", "u", "d", "g", "e", "t", " ", "o", "f", " ">>,
       trail |-> <<" ", "f", "o", "r", " ", "t", "h", "e", " ", "t", "o", "w", "n", " ", "o", "f", " ", "d", "o", "g", "g", "e", "r", "l", "a", "n", "d">>] }

Pieces ==
    { <<"$">>,
      <<"5">>,
      <<"1", "2">>,
      <<",">>,
      <<".">>,
      <<" ">>,
      <<"k">>,
      <<"m", "i", "l", "l", "i", "o", "n">>,
      <<"m", "o", "r", "e">>,
      <<"d", "o", "g">> }

(***************************************************************************)
(* main                                                                    *)
(***************************************************************************)
(* scripts/ftp-sync.js: the one-way sync of WEBROOT from FTP.  A path is   *)
(* the sequence of its names; a local file is "absent", or holds what the  *)
(* file of FTP holds ("live"), something else ("stale"), or what a         *)
(* download that failed left of it ("partial"); FTP is the set of the      *)
(* paths of its files.                                                     *)
(***************************************************************************)
IGNORE_LOCAL == {".git", "node_modules", ".env", ".env.example", "ND WEB.code-workspace", "scripts"}

\* the paths of the model, in the order readdir and client.list give them
PathOrder ==
    << <<"docs", "a.md">>, <<"index.html">>, <<"old.html">>, <<"scripts", "x.js">> >>

Paths == {PathOrder[k] : k \in 1..Len(PathOrder)}

LocalStates == {"absent", "stale", "live"}

\* the flags of process.argv
Flags == {"--dry-run", "--report", "--download-only"}

\* dryRunOf as it would be if only --dry-run were looked for
dryRunOfDryRunOnly(args) == "--dry-run" \in args

\* process.argv.includes("--dry-run") || process.argv.includes("--report")
dryRunOf(args) == "--dry-run" \in args \/ "--report" \in args

\* process.argv.includes("--download-only")
downloadOnlyOf(args) == "--download-only" \in args

\* listFtp(client, ""): the files of FTP, directories entered
listFtp(remote) == SelectSeq(PathOrder, LAMBDA p : p \in remote)

\* walkLocal skips an entry, file or directory, whose name is in IGNORE_LOCAL
IgnoredLocal(p) == \E k \in 1..Len(p) : p[k] \in IGNORE_LOCAL

\* walkLocal(WEBROOT)
walkLocal(webroot) ==
    SelectSeq(PathOrder, LAMBDA p : webroot[p] # "absent" /\ ~IgnoredLocal(p))

\* toRemoveOf as it would be without the filter
toRemoveOfAll(localFiles, remoteFiles) == localFiles

\* localFiles.filter((rel) => !remoteSet.has(rel))
toRemoveOf(localFiles, remoteFiles) ==
    SelectSeq(localFiles, LAMBDA rel : \A k \in 1..Len(remoteFiles) : remoteFiles[k] # rel)

(***************************************************************************)
VARIABLES
    files,                \* how many files walk returned
    corpus,               \* the documents readFile has met so far, in the order of files
    pc,                   \* where main is: "scan", "write", "done", "failed"
    allFacts,
    conflicts,
    similarGroups,
    crossGroupConflicts,
    report,               \* reportBody, once built
    reportFile,           \* discrepancy-report.md: the bodies written to it
    argv,                 \* ftp-sync: the flags of the command line
    envFile,              \* ftp-sync: .env exists and sets host, user, password
    ftp,                  \* the files of FTP
    webroot,              \* the files of WEBROOT: path -> state
    before,               \* ftp and webroot as the run found them
    syncPc,               \* where main of ftp-sync is
    remoteFiles,
    toRemove,
    downloaded,           \* the files of remoteFiles the download loop is past
    removing,             \* the files of toRemove the removal loop is past
    removed               \* the files rm has removed

checkVars == <<files, corpus, pc, allFacts, conflicts, similarGroups,
               crossGroupConflicts, report, reportFile>>

syncVars == <<argv, envFile, ftp, webroot, before, syncPc, remoteFiles,
              toRemove, downloaded, removing, removed>>

vars == <<checkVars, syncVars>>

\* ftp-sync is not run
NoSync ==
    /\ argv = {}
    /\ envFile = TRUE
    /\ ftp = {}
    /\ webroot = [p \in Paths |-> "absent"]
    /\ before = [ftp |-> ftp, webroot |-> webroot]
    /\ syncPc = "idle"
    /\ remoteFiles = <<>>
    /\ toRemove = <<>>
    /\ downloaded = 0
    /\ removing = 0
    /\ removed = 0

\* main after  const files = await walk(WEBROOT); const allFacts = [];
Init ==
    /\ files \in 0..MaxDocs
    /\ corpus = <<>>
    /\ pc = "scan"
    /\ allFacts = <<>>
    /\ conflicts = <<>>
    /\ similarGroups = <<>>
    /\ crossGroupConflicts = <<>>
    /\ report = <<>>
    /\ reportFile = <<>>
    /\ NoSync

\* the same with one file
InitDoc == Init /\ files = 1

\* the loop  for (const f of files)  has a file left
Scanning == pc = "scan" /\ Len(corpus) < files

\* one turn of the loop: allFacts.push(...(await extractFacts(f))), where the
\* file read is the document doc
Scan(doc) ==
    /\ corpus' = Append(corpus, doc)
    /\ allFacts' = allFacts \o extractFacts(Len(corpus) + 1, doc)
    /\ UNCHANGED <<files, pc, conflicts, similarGroups, crossGroupConflicts,
                   report, reportFile>>
    /\ UNCHANGED syncVars

\* the next file is a document of Docs
ScanFile ==
    /\ Scanning
    /\ \E doc \in Docs : Scan(doc)

\* the next file is a document of the wide set: a lead, at most MaxPieces
\* pieces and a trail, or a document that is skipped
ScanWideFile ==
    /\ Scanning
    /\ \/ \E fr \in Frames : \E n \in 0..MaxPieces : \E t \in [1..n -> Pieces] :
             LET doc == TextDoc(fr.lead \o Flatten(t) \o fr.trail) IN Scan(doc)
       \/ \E doc \in SkippedDocs : Scan(doc)

\* from the end of the loop over files to the call of writeFile
Analyse ==
    /\ pc = "scan"
    /\ Len(corpus) = files
    /\ conflicts' = directConflicts(allFacts)
    /\ similarGroups' = groupSimilarKeys(byKeyKeys(allFacts))
    /\ crossGroupConflicts' = crossConflicts(allFacts, similarGroups')
    /\ report' = reportBody(allFacts, conflicts', crossGroupConflicts')
    /\ pc' = "write"
    /\ UNCHANGED <<files, corpus, allFacts, reportFile>>
    /\ UNCHANGED syncVars

\* WriteReport as it would be if main wrote the report before the loop over
\* files was over
WriteReportEarly ==
    /\ pc = "scan"
    /\ reportFile = <<>>
    /\ reportFile' = Append(reportFile, report)
    /\ UNCHANGED <<files, corpus, pc, allFacts, conflicts, similarGroups,
                   crossGroupConflicts, report>>
    /\ UNCHANGED syncVars

\* await writeFile(REPORT_PATH, reportBody, "utf8") resolves
WriteReport ==
    /\ pc = "write"
    /\ reportFile' = Append(reportFile, report)
    /\ pc' = "done"
    /\ UNCHANGED <<files, corpus, allFacts, conflicts, similarGroups,
                   crossGroupConflicts, report>>
    /\ UNCHANGED syncVars

\* what a writeFile that rejects may leave in the file: a part of the body
PartialBody == [partial |-> TRUE]

\* await writeFile rejects: the file is as it was or holds a part of the
\* body, and main().catch logs the error and exits with 1
WriteFails ==
    /\ pc = "write"
    /\ pc' = "failed"
    /\ \/ reportFile' = reportFile
       \/ reportFile' = Append(reportFile, PartialBody)
    /\ UNCHANGED <<files, corpus, allFacts, conflicts, similarGroups,
                   crossGroupConflicts, report>>
    /\ UNCHANGED syncVars

Next == ScanFile \/ Analyse \/ WriteReport \/ WriteFails

NextDoc == ScanWideFile \/ Analyse \/ WriteReport \/ WriteFails

\* a run over a corpus of at most MaxDocs documents of Docs
Spec == Init /\ [][Next]_vars

\* a run over one document of the wide set
SpecDoc == InitDoc /\ [][NextDoc]_vars

(***************************************************************************)
(* main of ftp-sync.js                                                     *)
(***************************************************************************)
\* doc-discrepancy-check is not run
NoCheck ==
    /\ files = 0
    /\ corpus = <<>>
    /\ pc = "idle"
    /\ allFacts = <<>>
    /\ conflicts = <<>>
    /\ similarGroups = <<>>
    /\ crossGroupConflicts = <<>>
    /\ report = <<>>
    /\ reportFile = <<>>

\* node scripts/ftp-sync.js with some flags, over some FTP and some WEBROOT
InitSync ==
    /\ NoCheck
    /\ argv \in SUBSET Flags
    /\ envFile \in BOOLEAN
    /\ ftp \in SUBSET Paths
    /\ webroot \in [Paths -> LocalStates]
    /\ before = [ftp |-> ftp, webroot |-> webroot]
    /\ syncPc = "start"
    /\ remoteFiles = <<>>
    /\ toRemove = <<>>
    /\ downloaded = 0
    /\ removing = 0
    /\ removed = 0

\* the tests of .env and of host, user, password: process.exit(1) or go on
CheckEnv ==
    /\ syncPc = "start"
    /\ syncPc' = IF envFile THEN "connect" ELSE "failed"
    /\ UNCHANGED <<argv, envFile, ftp, webroot, before, remoteFiles, toRemove,
                   downloaded, removing, removed>>
    /\ UNCHANGED checkVars

\* client.access and client.cd resolve
Connect ==
    /\ syncPc = "connect"
    /\ syncPc' = "list"
    /\ UNCHANGED <<argv, envFile, ftp, webroot, before, remoteFiles, toRemove,
                   downloaded, removing, removed>>
    /\ UNCHANGED checkVars

\* client.access, client.cd or client.list rejects: the catch block exits with 1
FtpFails ==
    /\ syncPc \in {"connect", "list"}
    /\ syncPc' = "failed"
    /\ UNCHANGED <<argv, envFile, ftp, webroot, before, remoteFiles, toRemove,
                   downloaded, removing, removed>>
    /\ UNCHANGED checkVars

\* remoteFiles, localFiles, toRemove, and the return of a dry run
ListFiles ==
    /\ syncPc = "list"
    /\ remoteFiles' = listFtp(ftp)
    /\ toRemove' = toRemoveOf(walkLocal(webroot), remoteFiles')
    /\ syncPc' = IF dryRunOf(argv) THEN "done" ELSE "download"
    /\ UNCHANGED <<argv, envFile, ftp, webroot, before, downloaded, removing, removed>>
    /\ UNCHANGED checkVars

\* the download loop has a file left
Downloading == syncPc = "download" /\ downloaded < Len(remoteFiles)

\* one turn of the download loop: client.downloadTo(localPath, rel) resolves
DownloadFile ==
    /\ Downloading
    /\ webroot' = [webroot EXCEPT ![remoteFiles[downloaded + 1]] = "live"]
    /\ downloaded' = downloaded + 1
    /\ UNCHANGED <<argv, envFile, ftp, before, syncPc, remoteFiles, toRemove,
                   removing, removed>>
    /\ UNCHANGED checkVars

\* mkdirSync throws or client.downloadTo rejects: the local file is as it was
\* or is what the transfer wrote of it, and the catch block exits with 1
DownloadFails ==
    /\ Downloading
    /\ \/ webroot' = webroot
       \/ webroot' = [webroot EXCEPT ![remoteFiles[downloaded + 1]] = "partial"]
    /\ syncPc' = "failed"
    /\ UNCHANGED <<argv, envFile, ftp, before, remoteFiles, toRemove, downloaded,
                   removing, removed>>
    /\ UNCHANGED checkVars

\* after the download loop: the return of --download-only, or the removal
DownloadDone ==
    /\ syncPc = "download"
    /\ downloaded = Len(remoteFiles)
    /\ syncPc' = IF downloadOnlyOf(argv) THEN "done" ELSE "remove"
    /\ UNCHANGED <<argv, envFile, ftp, webroot, before, remoteFiles, toRemove,
                   downloaded, removing, removed>>
    /\ UNCHANGED checkVars

\* the removal loop has a file left
Removing == syncPc = "remove" /\ removing < Len(toRemove)

\* one turn of the removal loop: rm(full, { force: true }) resolves
RemoveFile ==
    /\ Removing
    /\ webroot' = [webroot EXCEPT ![toRemove[removing + 1]] = "absent"]
    /\ removing' = removing + 1
    /\ removed' = removed + 1
    /\ UNCHANGED <<argv, envFile, ftp, before, syncPc, remoteFiles, toRemove, downloaded>>
    /\ UNCHANGED checkVars

\* one turn of the removal loop: rm rejects, the catch block warns, the loop
\* goes on
RemoveFails ==
    /\ Removing
    /\ removing' = removing + 1
    /\ UNCHANGED <<argv, envFile, ftp, webroot, before, syncPc, remoteFiles, toRemove,
                   downloaded, removed>>
    /\ UNCHANGED checkVars

\* after the removal loop
RemoveDone ==
    /\ syncPc = "remove"
    /\ removing = Len(toRemove)
    /\ syncPc' = "done"
    /\ UNCHANGED <<argv, envFile, ftp, webroot, before, remoteFiles, toRemove,
                   downloaded, removing, removed>>
    /\ UNCHANGED checkVars

NextSync ==
    \/ CheckEnv
    \/ Connect
    \/ FtpFails
    \/ ListFiles
    \/ DownloadFile
    \/ DownloadFails
    \/ DownloadDone
    \/ RemoveFile
    \/ RemoveFails
    \/ RemoveDone

\* a run of ftp-sync.js
SpecSync == InitSync /\ [][NextSync]_vars

(***************************************************************************)
(* The vocabulary of the properties                                        *)
(***************************************************************************)
Range(q) == {q[i] : i \in DOMAIN q}

\* main is past the loop over files and has built the report
Analysed == pc # "scan"

FactSet == Range(allFacts)

AllKeys == {f.key : f \in FactSet}

\* the values the pooled facts carry under the keys of K
ValuesUnder(K) == {f.value : f \in {g \in FactSet : g.key \in K}}

FactsUnder(K) == {i \in DOMAIN allFacts : allFacts[i].key \in K}

\* the keys of the direct conflicts
DirectKeys == {conflicts[i].key : i \in DOMAIN conflicts}

(***************************************************************************)
(* C1                                                                      *)
(***************************************************************************)
\* C1: the direct-conflict section of the report holds exactly one record for
\* each context key whose facts carry at least two distinct values, and no
\* record for a key whose facts all carry the same value.
C1_DirectConflictPerKey ==
    Analysed =>
        /\ \A k \in AllKeys :
              Cardinality({i \in DOMAIN report.direct : report.direct[i].context = k})
                 = IF Cardinality(ValuesUnder({k})) >= 2 THEN 1 ELSE 0
        /\ \A i \in DOMAIN report.direct : report.direct[i].context \in AllKeys
        /\ Len(conflicts) = Len(report.direct)

\* a finished run with a key of several values, reported once, and a key
\* that two facts give the same value, not reported
C1_Witness ==
    /\ pc = "done"
    /\ Len(report.direct) = 1
    /\ \E k \in AllKeys : Cardinality(ValuesUnder({k})) >= 2
    /\ \E k \in AllKeys :
          Cardinality(ValuesUnder({k})) = 1 /\ Cardinality(FactsUnder({k})) >= 2

(***************************************************************************)
(* C2                                                                      *)
(***************************************************************************)
\* C2: a cross-context conflict is left out of the report only if every key
\* of its cluster is the key of a reported direct conflict.
C2_SuppressedOnlyIfAllCovered ==
    Analysed =>
        \A x \in DOMAIN crossGroupConflicts :
            (\A i \in DOMAIN report.cross :
                 report.cross[i].keys # crossGroupConflicts[x].keys)
               => \A k \in Range(crossGroupConflicts[x].keys) : k \in DirectKeys

(***************************************************************************)
(* C3                                                                      *)
(***************************************************************************)
\* C3: every fact extractFacts returns has a finite non-negative number as
\* its value; a dollar match that does not normalize to a number yields no
\* fact.
C3_ValuesAreNumbers ==
    \A f \in FactSet : ~f.value.nan /\ f.value.m >= 0

(***************************************************************************)
(* C4                                                                      *)
(***************************************************************************)
\* the places <<g, j>> of the clusters
ClusterPlaces ==
    UNION {{<<g, j>> : j \in DOMAIN similarGroups[g]} : g \in DOMAIN similarGroups}

\* C4: the clusters groupSimilarKeys returns partition the distinct context
\* keys: every key is at exactly one place of exactly one cluster, and the
\* clusters hold nothing else.
C4_ClustersPartitionKeys ==
    Analysed =>
        /\ \A k \in AllKeys :
              Cardinality({p \in ClusterPlaces : similarGroups[p[1]][p[2]] = k}) = 1
        /\ \A p \in ClusterPlaces : similarGroups[p[1]][p[2]] \in AllKeys

\* a finished run with several clusters, one of them of several keys
C4_Witness ==
    /\ pc = "done"
    /\ Len(similarGroups) >= 2
    /\ \E g \in DOMAIN similarGroups : Len(similarGroups[g]) >= 2

(***************************************************************************)
(* C5                                                                      *)
(***************************************************************************)
\* the cluster has several keys and its facts carry several values
ConflictingCluster(G) ==
    Len(G) >= 2 /\ Cardinality(ValuesUnder(Range(G))) >= 2

\* every value of the cluster is below 20 and one of its keys holds one of
\* replace, regex, exec, char, substr
SmallAndCodeLike(G) ==
    /\ \A v \in ValuesUnder(Range(G)) : LessThan(v, 20)
    /\ \E k \in Range(G) : CodeLikeGroupKey(k)

\* the records of crossGroupConflicts for the cluster G
CrossRecords(G) == {i \in DOMAIN crossGroupConflicts : crossGroupConflicts[i].keys = G}

\* two unit-count facts of values 12 and 15 under different linked keys
TwoCounts ==
    /\ Len(allFacts) = 2
    /\ \A f \in FactSet : f.type = "count"
    /\ {f.value : f \in FactSet} = {Num(12), Num(15)}
    /\ allFacts[1].key # allFacts[2].key
    /\ Linked(allFacts[1].key, allFacts[2].key)

\* no direct conflict and exactly one cross-context conflict, of 12 and 15
OneCrossConflict ==
    /\ conflicts = <<>>
    /\ report.direct = <<>>
    /\ Len(crossGroupConflicts) = 1
    /\ Len(report.cross) = 1
    /\ {report.cross[1].values[i].val : i \in DOMAIN report.cross[1].values}
          = {Num(12), Num(15)}

Letters == UpperSet \cup LowerSet

\* the offsets at which dollarRe or countRe matches in a text: the offsets
\* extractFacts calls makeContextKey with
MatchOffsets(text) ==
    {m.index : m \in Range(DollarMatches(text, 0))}
       \cup {m.index : m \in Range(CountMatches(text, 0))}

\* the offsets at which a maximal run of digits starts in s
DigitRunStarts(s) ==
    {a \in 0..(Len(s) - 1) : s[a + 1] \in Digits /\ (a = 0 \/ s[a] \notin Digits)}

\* the run of digits from offset a on has one of the characters of C next to it
Touches(s, a, C) ==
    \/ a > 0 /\ s[a] \in C
    \/ RunEnd(s, a, Digits) < Len(s) /\ s[RunEnd(s, a, Digits) + 1] \in C

HasDigit(s) == \E k \in 1..Len(s) : s[k] \in Digits

HasChar(s, c) == \E k \in 1..Len(s) : s[k] = c

\* C6 as stated: for every text and match offset the key holds no digit and
\* no dollar sign: every numeral of the window is replaced by "#".
C6_KeyHasNoDigits ==
    \A i \in DOMAIN corpus : \A pos \in MatchOffsets(corpus[i].text) :
        /\ ~HasDigit(makeContextKey(corpus[i].text, pos))
        /\ ~HasChar(makeContextKey(corpus[i].text, pos), "$")

\* C6 as amended: for every text and match offset the key holds no dollar
\* sign, and every numeral that stands alone in the window is replaced by
\* "#": a run of digits left in the masked window has a letter or an
\* underscore next to it, and, when the window holds no underscore and the
\* key is shorter than the 70 characters it is cut to, a run of digits left
\* in the key has a letter next to it.
C6_StandaloneNumeralsMasked ==
    \A i \in DOMAIN corpus : \A pos \in MatchOffsets(corpus[i].text) :
        \A key \in {makeContextKey(corpus[i].text, pos)} :
        \A masked \in {Masked(corpus[i].text, pos)} :
            /\ ~HasChar(key, "$")
            /\ \A a \in DigitRunStarts(masked) : Touches(masked, a, Letters \cup {"_"})
            /\ (~HasChar(masked, "_") /\ Len(key) < 70)
                  => \A a \in DigitRunStarts(key) : Touches(key, a, Letters)

\* a fact whose window held a numeral standing alone, now "#" in its key,
\* and digits next to a letter, still in its key
C6_Witness ==
    \E f \in FactSet :
        /\ HasChar(f.key, "#")
        /\ HasDigit(f.key)
        /\ \E a \in DigitRunStarts(Window(corpus[f.file].text, f.index)) :
              ~Touches(Window(corpus[f.file].text, f.index), a, Letters \cup {"_"})

(***************************************************************************)
(* C7                                                                      *)
(***************************************************************************)
\* the word that follows the numeral of the dollar fact f, white space
\* skipped: the letters from there on
WordAfterNumeral(f) ==
    LET t == corpus[f.file].text
        d == RunEnd(t, f.index + 1, Digits)
        q == RunEnd(t, d, Space)
    IN  Slice(t, q, RunEnd(t, q, Letters))

\* the dollar fact f comes from "$N" with N a numeral of digits only
IntegerNumeral(f) ==
    LET t == corpus[f.file].text
        d == RunEnd(t, f.index + 1, Digits)
    IN  d > f.index + 1 /\ (d = Len(t) \/ t[d + 1] \notin {",", "."})

NumeralOf(f) ==
    DigitsToNat(Slice(corpus[f.file].text, f.index + 1,
                      RunEnd(corpus[f.file].text, f.index + 1, Digits)))

\* C7: the value of the monetary fact of "$N" followed by S is N times 1,000
\* for k and thousand, N times 1,000,000 for M and million, and N when no
\* magnitude word or abbreviation follows the numeral.
C7_ValueIsNumeralTimesMultiplier ==
    \A f \in FactSet :
        (f.type = "dollar" /\ IntegerNumeral(f)) =>
            IF WordAfterNumeral(f) \in {<<"k">>, <<"t", "h", "o", "u", "s", "a", "n", "d">>}
            THEN f.value = Times10(Num(NumeralOf(f)), 3)
            ELSE IF WordAfterNumeral(f) \in {<<"M">>, <<"m", "i", "l", "l", "i", "o", "n">>}
            THEN f.value = Times10(Num(NumeralOf(f)), 6)
            ELSE IF ToLowerCase(WordAfterNumeral(f))
                       \in {<<"k">>, <<"m">>, <<"t", "h", "o", "u", "s", "a", "n", "d">>,
                            <<"m", "i", "l", "l", "i", "o", "n">>}
            THEN TRUE
            ELSE f.value = Num(NumeralOf(f))

(***************************************************************************)
(* C8                                                                      *)
(***************************************************************************)
\* the document cannot be read, exceeds the size cap or holds a null byte
Skipped(doc) ==
    \/ ~doc.readable
    \/ doc.bytes > 2 * 1024 * 1024
    \/ HasChar(doc.text, NUL)

\* the facts of the documents 1..n that are not skipped, each scanned alone
RECURSIVE FactsOfOthers(_)
FactsOfOthers(n) ==
    IF n = 0 THEN <<>>
    ELSE FactsOfOthers(n - 1)
            \o (IF Skipped(corpus[n]) \/ corpus[n].text = <<>> THEN <<>>
                ELSE ScanText(corpus[n].text, n))

\* C8: a document that exceeds the size cap, holds a null byte or cannot be
\* read contributes no fact and does not abort the run: the facts of the
\* other documents are what they are without it, the loop goes on to the
\* documents left, and the report is built over all of them and written.
C8_SkippedDocumentsContributeNothing ==
    /\ \A i \in DOMAIN corpus :
          Skipped(corpus[i]) => \A f \in FactSet : f.file # i
    /\ allFacts = FactsOfOthers(Len(corpus))
    /\ (pc = "scan" /\ Len(corpus) < files) => ENABLED ScanFile
    /\ Analysed =>
          /\ Len(corpus) = files
          /\ report.summary.totalFacts = Len(allFacts)
    /\ pc = "done" => reportFile = <<report>>

\* a finished run in which a skipped document came before a document that
\* gave facts
C8_Witness ==
    /\ pc = "done"
    /\ reportFile = <<report>>
    /\ \E i \in DOMAIN corpus : \E j \in DOMAIN corpus :
          /\ i < j
          /\ Skipped(corpus[i])
          /\ \E f \in FactSet : f.file = j

(***************************************************************************)
(* C9                                                                      *)
(***************************************************************************)
\* C9 as stated: the facts of one document are in order of appearance,
\* monetary and unit-count facts alike, and the pooled list keeps the
\* documents in traversal order.
C9_FactsInOrderOfAppearance ==
    \A n \in 1..(Len(allFacts) - 1) :
        /\ allFacts[n].file <= allFacts[n + 1].file
        /\ allFacts[n].file = allFacts[n + 1].file
              => allFacts[n].index <= allFacts[n + 1].index

\* C9 as amended: the facts of one document are its monetary facts in order
\* of appearance followed by its unit-count facts in order of appearance, and
\* the pooled list keeps the documents in traversal order.
C9_DollarsThenCountsInOrder ==
    \A n \in 1..(Len(allFacts) - 1) :
        /\ allFacts[n].file <= allFacts[n + 1].file
        /\ allFacts[n].file = allFacts[n + 1].file
              => \/ allFacts[n].type = "dollar" /\ allFacts[n + 1].type = "count"
                 \/ /\ allFacts[n].type = allFacts[n + 1].type
                    /\ allFacts[n].index < allFacts[n + 1].index

\* two documents with facts, one of them with a monetary fact listed ahead
\* of two unit-count facts that appear before it
C9_Witness ==
    /\ \E f \in FactSet : \E g \in FactSet : f.file # g.file
    /\ \E n \in 1..(Len(allFacts) - 2) :
          /\ allFacts[n].file = allFacts[n + 2].file
          /\ allFacts[n].type = "dollar"
          /\ allFacts[n + 1].type = "count"
          /\ allFacts[n + 1].index < allFacts[n + 2].index
          /\ allFacts[n + 2].index < allFacts[n].index

(***************************************************************************)
(* C10                                                                     *)
(***************************************************************************)
\* the match of a pattern at offset pos of document i gave a fact
GaveFact(i, pos, type) ==
    \E f \in FactSet : f.file = i /\ f.index = pos /\ f.type = type

DollarOffsets(text) == {m.index : m \in Range(DollarMatches(text, 0))}

CountOffsets(text) == {m.index : m \in Range(CountMatches(text, 0))}

\* C10: a match whose key is shorter than the threshold, 12 characters for a
\* monetary match and 5 for a unit-count match, produces no fact, so every
\* fact, and every key of a direct or cross-context conflict, has a key of at
\* least that length.
C10_ShortKeysGiveNoFact ==
    /\ \A i \in DOMAIN corpus :
          /\ \A pos \in DollarOffsets(corpus[i].text) :
                Len(makeContextKey(corpus[i].text, pos)) < 12 => ~GaveFact(i, pos, "dollar")
          /\ \A pos \in CountOffsets(corpus[i].text) :
                Len(makeContextKey(corpus[i].text, pos)) < 5 => ~GaveFact(i, pos, "count")
    /\ \A f \in FactSet : Len(f.key) >= (IF f.type = "dollar" THEN 12 ELSE 5)
    /\ \A i \in DOMAIN conflicts :
          \A f \in Range(conflicts[i].list) :
              Len(f.key) >= (IF f.type = "dollar" THEN 12 ELSE 5)
    /\ \A i \in DOMAIN crossGroupConflicts :
          \A f \in Range(crossGroupConflicts[i].facts) :
              Len(f.key) >= (IF f.type = "dollar" THEN 12 ELSE 5)

\* a finished run over a document with a monetary match whose key is too
\* short, which gave no fact, and a unit-count match that gave one
C10_Witness ==
    /\ pc = "done"
    /\ \E i \in DOMAIN corpus :
          /\ \E pos \in DollarOffsets(corpus[i].text) :
                /\ Len(makeContextKey(corpus[i].text, pos)) < 12
                /\ ~GaveFact(i, pos, "dollar")
          /\ \E pos \in CountOffsets(corpus[i].text) : GaveFact(i, pos, "count")

(***************************************************************************)
(* C13                                                                     *)
(***************************************************************************)
\* the place of the key k in the order of the keys of the map
KeyPlace(k) ==
    CHOOSE n \in 1..Len(byKeyKeys(allFacts)) : byKeyKeys(allFacts)[n] = k

\* C13 as stated: every member of a cluster but its first is linked to the
\* first key of the cluster, the key that started it.
C13_MembersLinkedToSeed ==
    \A g \in DOMAIN similarGroups :
        \A j \in 2..Len(similarGroups[g]) :
            Linked(similarGroups[g][1], similarGroups[g][j])

\* C13 as amended: every member of a cluster but its first is linked to a key
\* that is in the cluster before it, the first key or a key absorbed earlier
\* in the same pass; and a key left to a later cluster is linked to no member
\* of the earlier cluster that comes before it in the order of the keys.
C13_MembersLinkedToEarlierMember ==
    /\ \A g \in DOMAIN similarGroups :
          \A j \in 2..Len(similarGroups[g]) :
              \E i \in 1..(j - 1) : Linked(similarGroups[g][i], similarGroups[g][j])
    /\ \A g \in DOMAIN similarGroups : \A h \in DOMAIN similarGroups :
          g < h =>
              \A m \in Range(similarGroups[g]) : \A o \in Range(similarGroups[h]) :
                  KeyPlace(m) < KeyPlace(o) => ~Linked(m, o)

\* a finished run with a cluster whose third key is linked to its second key
\* and not to its first
C13_Witness ==
    /\ pc = "done"
    /\ \E g \in DOMAIN similarGroups :
          /\ Len(similarGroups[g]) >= 3
          /\ ~Linked(similarGroups[g][1], similarGroups[g][3])
          /\ Linked(similarGroups[g][2], similarGroups[g][3])

(***************************************************************************)
(* C15                                                                     *)
(***************************************************************************)
\* C15: the report is written once, after every document has been scanned
\* and both collections of conflicts have been computed, and it is the report
\* of those; until then, and in a run that fails before then, nothing is
\* written.
C15_ReportWrittenOnceAtTheEnd ==
    /\ Len(reportFile) <= 1
    /\ pc \in {"scan", "write"} => reportFile = <<>>
    /\ pc = "done" => reportFile = <<report>>
    /\ reportFile # <<>> =>
          /\ pc \in {"done", "failed"}
          /\ Len(corpus) = files
          /\ conflicts = directConflicts(allFacts)
          /\ similarGroups = groupSimilarKeys(byKeyKeys(allFacts))
          /\ crossGroupConflicts = crossConflicts(allFacts, similarGroups)
          /\ report = reportBody(allFacts, conflicts, crossGroupConflicts)
          /\ reportFile[1] \in {report, PartialBody}

\* a finished run over several documents with a direct conflict, whose
\* report is in the file
C15_Witness ==
    /\ pc = "done"
    /\ Len(corpus) >= 2
    /\ conflicts # <<>>
    /\ reportFile = <<report>>

(***************************************************************************)
(* C11                                                                     *)
(***************************************************************************)
\* the run was started with --dry-run or with --report
DryRunAsked == "--dry-run" \in argv \/ "--report" \in argv

\* C11: in a run with --dry-run or --report no file is downloaded, no local
\* file is removed, and WEBROOT and FTP stay what they were before the run.
C11_DryRunChangesNothing ==
    DryRunAsked =>
        /\ downloaded = 0
        /\ removing = 0
        /\ removed = 0
        /\ webroot = before.webroot
        /\ ftp = before.ftp
        /\ syncPc \notin {"download", "remove"}

\* a run with --report alone that has ended after listing files it would
\* download and files it would remove
C11_Witness ==
    /\ syncPc = "done"
    /\ argv = {"--report"}
    /\ remoteFiles # <<>>
    /\ toRemove # <<>>
    /\ \E k \in 1..Len(remoteFiles) : webroot[remoteFiles[k]] # "live"

(***************************************************************************)
(* C12                                                                     *)
(***************************************************************************)
\* a run without --dry-run, --report and --download-only has ended without
\* error
FullSyncDone == syncPc = "done" /\ argv = {}

NameIgnored(p) ==
    \E k \in 1..Len(p) :
        p[k] \in {".git", "node_modules", ".env", ".env.example",
                  "ND WEB.code-workspace", "scripts"}

C14_WebrootUnchangedUntilDownloaded ==
    syncPc \in {"download", "failed"} => webroot = before.webroot

====
